---- MODULE Spec2Model ----
(***************************************************************************)
(* Diagnosis pipeline of rag-agent (rag_agent/agents/diagnosis_agent.py),  *)
(* its wiring (rag_agent/graphs/main_graph.py), the record schema          *)
(* (rag_agent/schemas/diagnosis.py) and the retrieval facade               *)
(* (rag_agent/retrieval/base_enhanced_retriever.py, rag_agent/rag_engine.py)*)
(***************************************************************************)
EXTENDS Integers, Sequences, FiniteSets, TLC

(***************************************************************************)
(* Bounds of the model.                                                    *)
(***************************************************************************)
\* longest list the vector store hands back for one search
MaxDocs == 2

(***************************************************************************)
(* JSON values.  A text is a sequence of one-character strings, so that    *)
(* int(text) is computed and not assumed.                                  *)
(***************************************************************************)
IntV(i) == [t |-> "int", n |-> i, s |-> <<>>]
StrV(x) == [t |-> "str", n |-> 0, s |-> x]
NoneV == [t |-> "none", n |-> 0, s |-> <<>>]

\* Python truthiness of a JSON value: 0, "" and None are falsy
Truthy(v) ==
    CASE v.t = "int" -> v.n # 0
      [] v.t = "str" -> v.s # <<>>
      [] OTHER -> FALSE

\* a dict: a function from the keys it holds to their values
EmptyMap == [k \in {} |-> NoneV]

\* {**a, **b}: b's entries overwrite a's
Layer(a, b) ==
    [k \in (DOMAIN a) \cup (DOMAIN b) |-> IF k \in DOMAIN b THEN b[k] ELSE a[k]]

\* d.get(k), None when the key is missing
Get(d, k) == IF k \in DOMAIN d THEN d[k] ELSE NoneV

\* d.pop(k, None)
Pop(d, k) == [x \in (DOMAIN d) \ {k} |-> d[x]]

\* d[k] = v
Put(d, k, v) == [x \in (DOMAIN d) \cup {k} |-> IF x = k THEN v ELSE d[x]]

(***************************************************************************)
(* int(text): optional sign, then one or more decimal digits.              *)
(***************************************************************************)
Digits == <<"0", "1", "2", "3", "4", "5", "6", "7", "8", "9">>

IsDigit(c) == \E i \in 1..Len(Digits) : Digits[i] = c

DigitVal(c) == (CHOOSE i \in 1..Len(Digits) : Digits[i] = c) - 1

Unsigned(x) == IF Len(x) > 0 /\ x[1] \in {"-", "+"} THEN Tail(x) ELSE x

\* int(x) does not raise ValueError
IsNumeral(x) ==
    /\ Len(Unsigned(x)) > 0
    /\ \A i \in 1..Len(Unsigned(x)) : IsDigit(Unsigned(x)[i])

RECURSIVE DigitsToInt(_)
DigitsToInt(x) ==
    IF x = <<>> THEN 0
    ELSE 10 * DigitsToInt(SubSeq(x, 1, Len(x) - 1)) + DigitVal(x[Len(x)])

ToInt(x) ==
    IF Len(x) > 0 /\ x[1] = "-" THEN 0 - DigitsToInt(Unsigned(x))
    ELSE DigitsToInt(Unsigned(x))

(***************************************************************************)
(* DiagnosisFields (schemas/diagnosis.py).  The modelled fields are the    *)
(* identity, the four assessment fields and one narrative field.           *)
(***************************************************************************)
HealthStatuses == {<<"normal">>, <<"warning">>, <<"abnormal">>, <<"severe">>}
RiskLevels == {<<"low">>, <<"medium">>, <<"high">>}

SchemaFields ==
    {"device_name", "health_score", "health_status", "risk_level", "issue_count",
     "fault_description"}

SchemaDefault(k) ==
    CASE k = "health_score" -> IntV(0)
      [] k = "issue_count" -> IntV(0)
      [] k = "health_status" -> StrV(<<"normal">>)
      [] k = "risk_level" -> StrV(<<"low">>)
      [] OTHER -> StrV(<<>>)

\* the int(...) coercion of from_llm_response for one key, done in place
Coerce(data, k) ==
    IF k \in DOMAIN data /\ data[k].t = "str"
    THEN Put(data, k, IF IsNumeral(data[k].s) THEN IntV(ToInt(data[k].s)) ELSE IntV(0))
    ELSE data

CoerceAll(data) == Coerce(Coerce(data, "health_score"), "issue_count")

\* pydantic accepts the value given for field k
FieldValid(k, v) ==
    CASE k = "device_name" -> v.t = "str"
      [] k = "health_score" -> v.t = "int" /\ v.n >= 0 /\ v.n <= 100
      [] k = "issue_count" -> v.t = "int" /\ v.n >= 0
      [] k = "health_status" -> v.t = "str" /\ v.s \in HealthStatuses
      [] k = "risk_level" -> v.t = "str" /\ v.s \in RiskLevels
      [] OTHER -> v.t = "str"

\* cls.model_validate(data) does not raise ValidationError
ModelValid(data) ==
    /\ "device_name" \in DOMAIN data
    /\ \A k \in SchemaFields \cap DOMAIN data : FieldValid(k, data[k])

\* validated.model_dump(): every schema field, defaults filled in, extras dropped
ModelDump(data) ==
    [k \in SchemaFields |-> IF k \in DOMAIN data THEN data[k] ELSE SchemaDefault(k)]

(***************************************************************************)
(* Documents and the retrieval side.                                       *)
(***************************************************************************)
Doc(c, src) == [content |-> c, metadata |-> [source |-> src]]

Docs == {Doc(<<"a">>, "s1"), Doc(<<"b">>, "s2")}

RECURSIVE SeqsUpTo(_, _)
SeqsUpTo(S, n) ==
    IF n = 0 THEN {<<>>}
    ELSE SeqsUpTo(S, n - 1) \cup
         {Append(q, x) : q \in {r \in SeqsUpTo(S, n - 1) : Len(r) = n - 1}, x \in S}

\* what vectorstore.similarity_search / the FAISS retriever does for one call:
\* it raises, or hands back a list (possibly empty, possibly with repeats)
DenseOutcomes ==
    {[raised |-> TRUE, docs |-> <<>>]} \cup
    {[raised |-> FALSE, docs |-> d] : d \in SeqsUpTo(Docs, MaxDocs)}

\* config.RETRIEVAL_TOP_K
RETRIEVAL_TOP_K == 10

\* _get_document_key: content and sorted metadata items
DocKey(doc) == <<doc.content, doc.metadata>>

\* _deduplicate_documents: first occurrence wins
RECURSIVE Dedup(_, _)
Dedup(docs, seen) ==
    IF docs = <<>> THEN <<>>
    ELSE IF DocKey(Head(docs)) \in seen THEN Dedup(Tail(docs), seen)
    ELSE <<Head(docs)>> \o Dedup(Tail(docs), seen \cup {DocKey(Head(docs))})

Truncate(docs, k) == SubSeq(docs, 1, IF Len(docs) < k THEN Len(docs) ELSE k)

\* EnhancedRetriever.retrieve as get_enhanced_retriever() configures it
\* (hybrid_retriever is None, reranker is None, no metadata_filter): the
\* vector search of the one query, deduplicated and cut to top_k.  Nothing
\* catches an exception of similarity_search.
retrieve(eng, dense, top_k) ==
    IF ~eng.vectorstore THEN [raised |-> FALSE, docs |-> <<>>]
    ELSE IF dense.raised THEN [raised |-> TRUE, docs |-> <<>>]
    ELSE [raised |-> FALSE, docs |-> Truncate(Dedup(dense.docs, {}), top_k)]

\* RAGEngine.retrieve: raises when not initialised, swallows a search failure
engine_retrieve(eng, dense) ==
    IF ~eng.vectorstore THEN [raised |-> TRUE, docs |-> <<>>]
    ELSE IF dense.raised THEN [raised |-> FALSE, docs |-> <<>>]
    ELSE [raised |-> FALSE, docs |-> dense.docs]

(***************************************************************************)
(* The module-level singletons of diagnosis_agent.py.                      *)
(***************************************************************************)
NoEngine == [created |-> FALSE, vectorstore |-> FALSE, llm |-> FALSE, retriever |-> FALSE]

\* how RAGEngine.initialize(load_only=True) ends: it completes, it raises
\* because the vector store is missing, or it raises because the API key is
\* missing (after the vector store was loaded)
InitOutcomes == {"ok", "no_vectorstore", "no_api_key"}

\* get_engine(): _engine is assigned before initialize() runs
get_engine(eng, init) ==
    IF eng.created THEN [raised |-> FALSE, engine |-> eng]
    ELSE [raised |-> init # "ok",
          engine |-> [eng EXCEPT !.created = TRUE,
                                 !.vectorstore = (init \in {"ok", "no_api_key"}),
                                 !.llm = (init = "ok")]]

\* get_enhanced_retriever()
get_enhanced_retriever(eng, init) ==
    IF eng.retriever THEN [raised |-> FALSE, engine |-> eng]
    ELSE LET g == get_engine(eng, init)
         IN IF g.raised THEN g
            ELSE [raised |-> FALSE, engine |-> [g.engine EXCEPT !.retriever = TRUE]]

(***************************************************************************)
(* The LLM.  One call raises, answers text that no strategy of             *)
(* _parse_json_response parses, or answers a JSON object.                  *)
(***************************************************************************)
Raises == [kind |-> "raise", value |-> EmptyMap]
Unparsable == [kind |-> "text", value |-> EmptyMap]
Json(m) == [kind |-> "json", value |-> m]

T(x) == StrV(<<x>>)

CoreOutcomes ==
    <<Raises, Unparsable,
      Json([health_score |-> IntV(85), health_status |-> T("normal"),
            risk_level |-> T("low"), issue_count |-> IntV(2),
            assessment_reasoning |-> T("r")]),
      Json([health_score |-> StrV(<<"7", "2">>), health_status |-> T("warning"),
            issue_count |-> StrV(<<"x">>), assessment_reasoning |-> T("r")]),
      Json([health_score |-> IntV(150), issue_count |-> IntV(1)])>>

FaultOutcomes ==
    <<Raises,
      Json([fault_description |-> T("f"), risk_level |-> T("high")])>>

RiskOutcomes ==
    <<Unparsable,
      Json([risk_level |-> T("medium")])>>

DeviceInfoOutcomes ==
    <<Raises,
      Json([device_name |-> StrV(<<>>)]),
      Json([device_name |-> T("X"), health_status |-> T("abnormal")])>>

MonitoringOutcomes ==
    <<Raises,
      Json([device_name |-> NoneV, issue_count |-> StrV(<<"3">>)])>>

MaintenanceOutcomes ==
    <<Raises,
      Json([device_name |-> T("Y"), health_score |-> StrV(<<"-", "5">>)]),
      Json([issue_count |-> IntV(0 - 1), fault_description |-> T("m")])>>

TaskNames == {"fault", "risk", "device_info", "monitoring"}

TaskOutcomes(t) ==
    CASE t = "fault" -> FaultOutcomes
      [] t = "risk" -> RiskOutcomes
      [] t = "device_info" -> DeviceInfoOutcomes
      [] OTHER -> MonitoringOutcomes

\* the keys of core_assessment a task puts in its prompt
TaskReads(t) ==
    CASE t = "fault" -> {"health_score", "health_status", "risk_level", "assessment_reasoning"}
      [] t = "risk" -> {"health_score", "health_status"}
      [] t = "device_info" -> {}
      [] OTHER -> {"health_score"}

\* the human message a task builds from the state it is handed
TaskPrompt(t, st) ==
    [device_name |-> st.device_name,
     core |-> [k \in TaskReads(t) |-> Get(st.core_assessment, k)],
     context |-> [i \in 1..Len(st.documents) |-> st.documents[i].content]]

\* a mocked deterministic LLM answers by the content of the prompt
PromptHash(p) ==
    Len(p.device_name) + Len(p.context)
    + (IF "health_score" \in DOMAIN p.core /\ Truthy(p.core["health_score"]) THEN 1 ELSE 0)

\* the response of the mocked LLM (table tbl, one seed per task) to a prompt
Respond(tbl, down, t, h) ==
    IF down THEN Raises
    ELSE TaskOutcomes(t)[((tbl[t] + h) % Len(TaskOutcomes(t))) + 1]

\* _call_llm inside a node's try block: get_engine(), then the call and the
\* parse; any exception ends in the node's except branch
CallFails(g, out) == g.raised \/ ~g.engine.llm \/ out.kind # "json"

(***************************************************************************)
(* State of one run.                                                       *)
(***************************************************************************)
VARIABLES
    graph,          \* what drives the nodes: "main_graph", "flow" or "node"
    pc,             \* the node about to run, "gather", "END" or "raised"
    state,          \* the state dict handed from node to node; state.keys are the keys it holds
    executed,       \* the nodes that have returned, in order
    engine,         \* _engine and _enhanced_retriever
    llm_down,       \* the LLM client raises on every call of this run
    llm,            \* the mocked LLM's table for the four fan-out prompts
    tasks,          \* the four asyncio tasks of parallel_analysis_node
    completed,      \* the fan-out tasks in the order they finished
    retrieve_call,  \* how the call of EnhancedRetriever.retrieve ended
    validation_call, \* what validation_node got from the LLM
    report_call,    \* what report_node got from generate_diagnosis_report_async
    llm_calls,      \* how many LLM calls each node or task has issued in this run
    retriever,      \* an EnhancedRetriever object exercised on its own
    bm25,           \* a BM25Retriever object exercised on its own
    call            \* the last call made on a component exercised on its own

\* the variables of the components exercised on their own
units == <<retriever, bm25, call>>

\* the variables of a pipeline run
pipeline ==
    <<graph, pc, state, executed, engine, llm_down, llm, tasks, completed,
      retrieve_call, validation_call, report_call, llm_calls>>

vars == <<pipeline, units>>

NoRetriever == [created |-> FALSE]
NoIndex == [built |-> FALSE]
NoCall == [fn |-> "none"]

\* no component is exercised on its own during a pipeline run
UnitsIdle ==
    /\ retriever = NoRetriever
    /\ bm25 = NoIndex
    /\ call = NoCall

\* the keys of AgentState (schemas/state.py) among the keys the nodes use
AgentStateKeys == {"query", "documents", "diagnosis_data", "report_path"}

\* every key a diagnosis node reads or returns
NodeKeys ==
    {"query", "device_name", "documents", "core_assessment", "fault_analysis",
     "risk_analysis", "device_info_fields", "monitoring_fields", "maintenance_fields",
     "validation_issues", "diagnosis_data", "report_path"}

\* the keys the driver keeps of a node's partial update: StateGraph(AgentState)
\* keeps the keys of its schema; the documented flow and a direct call hand the
\* whole dict on
DeclaredKeys(g) == IF g = "main_graph" THEN AgentStateKeys ELSE NodeKeys

\* build_main_graph: diagnosis_retrieval -> diagnosis_analysis (core_assessment_node)
\* -> diagnosis_fields (merge_fields_node) -> diagnosis_report (report_node) -> END
MainGraphOrder == <<"retrieval", "core_assessment", "merge", "report">>

\* the flow the module docstring of diagnosis_agent.py documents
FlowOrder ==
    <<"retrieval", "core_assessment", "parallel_analysis", "maintenance",
      "validation", "merge", "report">>

\* a caller awaits parallel_analysis_node on a state of its own
NodeOrder == <<"parallel_analysis">>

Order(g) ==
    CASE g = "main_graph" -> MainGraphOrder
      [] g = "flow" -> FlowOrder
      [] OTHER -> NodeOrder

Successor(g, node) ==
    LET o == Order(g)
        i == CHOOSE j \in 1..Len(o) : o[j] = node
    IN IF i = Len(o) THEN "END" ELSE o[i + 1]

\* the driver merges a partial update into the state, last writer wins per key
ApplyUpdate(st, upd, declared) ==
    [k \in DOMAIN st |->
        IF k = "keys" THEN st.keys \cup ((DOMAIN upd) \cap declared)
        ELSE IF k \in (DOMAIN upd) \cap declared THEN upd[k]
        ELSE st[k]]

Texts == {<<>>, <<"T">>}

\* the initial state a caller builds: main_agent_invoke (AgentState, no
\* device_name), the example of build_diagnosis_graph (DiagnosisState)
InitialState(g, q, dn) ==
    [keys |-> IF g = "flow" THEN {"query", "device_name", "documents", "diagnosis_data", "report_path"}
              ELSE AgentStateKeys,
     query |-> q,
     device_name |-> IF g = "flow" THEN dn ELSE <<>>,
     documents |-> IF g = "node" THEN <<Doc(<<"a">>, "s1")>> ELSE <<>>,
     core_assessment |-> EmptyMap,
     fault_analysis |-> EmptyMap,
     risk_analysis |-> EmptyMap,
     device_info_fields |-> EmptyMap,
     monitoring_fields |-> EmptyMap,
     maintenance_fields |-> EmptyMap,
     validation_issues |-> <<>>,
     diagnosis_data |-> EmptyMap,
     report_path |-> <<>>]

IdleTask == [status |-> "idle", h |-> 0, result |-> EmptyMap]

NoRetrieve == [called |-> FALSE, backend_failed |-> FALSE, raised |-> FALSE, docs |-> <<>>]

NoValidation ==
    [called |-> FALSE, ok |-> FALSE, corrections |-> EmptyMap, all_data |-> EmptyMap]

\* the nodes and tasks that call _call_llm
LlmCallers == TaskNames \cup {"core_assessment", "maintenance", "validation"}

NoCalls == [c \in LlmCallers |-> 0]

\* a node that calls the LLM once more when the first call fails
CallsIssued_retry(g, out) ==
    IF g.raised \/ ~g.engine.llm THEN 0 ELSE IF out.kind # "json" THEN 2 ELSE 1

\* the calls of engine.llm.ainvoke one _call_llm inside a try block makes:
\* none when get_engine() raises or engine.llm is None, else one
CallsIssued(g, out) == IF g.raised \/ ~g.engine.llm THEN 0 ELSE 1

NoReport == [called |-> FALSE, em |-> [raised |-> FALSE, success |-> FALSE, has |-> FALSE, text |-> <<>>]]

\* one seed per fan-out prompt: which of the task's outcomes answers hash 0
LlmTables == {tbl \in [TaskNames -> 0..2] : \A t \in TaskNames : tbl[t] < Len(TaskOutcomes(t))}

Init ==
    /\ graph \in {"main_graph", "flow", "node"}
    /\ pc = Order(graph)[1]
    /\ \E q \in Texts, dn \in Texts : state = InitialState(graph, q, dn)
    /\ executed = <<>>
    /\ engine = NoEngine
    /\ llm_down \in BOOLEAN
    /\ llm \in (IF llm_down THEN {[t \in TaskNames |-> 0]} ELSE LlmTables)
    /\ tasks = [t \in TaskNames |-> IdleTask]
    /\ completed = <<>>
    /\ retrieve_call = NoRetrieve
    /\ validation_call = NoValidation
    /\ report_call = NoReport
    /\ llm_calls = NoCalls
    /\ UnitsIdle

\* a node returns the partial update upd
Return(node, upd) ==
    /\ state' = ApplyUpdate(state, upd, DeclaredKeys(graph))
    /\ executed' = Append(executed, node)
    /\ pc' = Successor(graph, node)

\* an exception leaves the node and reaches the caller of the run
Raise ==
    /\ pc' = "raised"
    /\ UNCHANGED <<state, executed>>

\* the outcome of one LLM call of a sequential node
SeqOutcome(outs) == IF llm_down THEN {Raises} ELSE {outs[i] : i \in 1..Len(outs)}

(***************************************************************************)
(* retrieval_node                                                          *)
(***************************************************************************)
\* state.get("device_name") or query
RetrievalDeviceName(st) ==
    IF "device_name" \in st.keys /\ st.device_name # <<>> THEN st.device_name ELSE st.query

RetrievalNode ==
    /\ pc = "retrieval"
    /\ \E init \in InitOutcomes, d1 \in DenseOutcomes, d2 \in DenseOutcomes :
        LET device_name == RetrievalDeviceName(state)
            g1 == get_enhanced_retriever(engine, init)
            rc == retrieve(g1.engine, d1, RETRIEVAL_TOP_K)
            ok == ~g1.raised /\ ~rc.raised
            g2 == get_engine(g1.engine, init)
            fb == engine_retrieve(g2.engine, d2)
        IN /\ retrieve_call' =
                IF g1.raised THEN NoRetrieve
                ELSE [called |-> TRUE,
                      backend_failed |-> g1.engine.vectorstore /\ d1.raised,
                      raised |-> rc.raised,
                      docs |-> rc.docs]
           /\ IF ok
              THEN /\ engine' = g1.engine
                   /\ Return("retrieval", [documents |-> rc.docs, device_name |-> device_name])
              ELSE /\ engine' = g2.engine
                   /\ IF g2.raised \/ fb.raised
                      THEN Raise
                      ELSE Return("retrieval", [documents |-> fb.docs, device_name |-> device_name])
    /\ UNCHANGED <<units, report_call, llm_calls, graph, llm_down, llm, tasks, completed, validation_call>>

(***************************************************************************)
(* core_assessment_node                                                    *)
(***************************************************************************)
\* the default when documents is empty
CoreNoDocuments ==
    [health_score |-> IntV(0), health_status |-> T("abnormal"),
     risk_level |-> T("high"), issue_count |-> IntV(0)]

\* the default of the except branch
CoreFailed ==
    [health_score |-> IntV(50), health_status |-> T("warning"),
     risk_level |-> T("medium"), issue_count |-> IntV(0)]

CoreAssessmentNode ==
    /\ pc = "core_assessment"
    /\ IF "device_name" \notin state.keys
       THEN Raise /\ UNCHANGED <<engine, llm_calls>>
       ELSE IF state.documents = <<>>
       THEN /\ Return("core_assessment", [core_assessment |-> CoreNoDocuments])
            /\ UNCHANGED <<engine, llm_calls>>
       ELSE \E init \in InitOutcomes, out \in SeqOutcome(CoreOutcomes) :
               LET g == get_engine(engine, init)
               IN /\ engine' = g.engine
                  /\ llm_calls' = [llm_calls EXCEPT !["core_assessment"] = @ + CallsIssued(g, out)]
                  /\ Return("core_assessment",
                            [core_assessment |-> IF CallFails(g, out) THEN CoreFailed ELSE out.value])
    /\ UNCHANGED <<units, report_call, graph, llm_down, llm, tasks, completed, retrieve_call, validation_call>>

(***************************************************************************)
(* parallel_analysis_node and its four tasks                               *)
(***************************************************************************)
\* the node creates the four tasks and awaits asyncio.gather
ParallelStart ==
    /\ pc = "parallel_analysis"
    /\ pc' = "gather"
    /\ UNCHANGED <<units, report_call, llm_calls, graph, state, executed, engine, llm_down, llm, tasks, completed,
                   retrieve_call, validation_call>>

\* a task runs up to its first suspension: it reads the state and builds the
\* prompt outside its try block (a missing device_name is a KeyError that
\* nothing catches), then get_engine() and the check of engine.llm inside it
TaskStart(t) ==
    /\ pc = "gather"
    /\ tasks[t].status = "idle"
    /\ IF "device_name" \notin state.keys
       THEN /\ tasks' = [tasks EXCEPT ![t].status = "raised"]
            /\ UNCHANGED <<engine, completed>>
       ELSE \E init \in InitOutcomes :
               LET g == get_engine(engine, init)
               IN /\ engine' = g.engine
                  /\ IF g.raised \/ ~g.engine.llm
                     THEN /\ tasks' = [tasks EXCEPT ![t].status = "done"]
                          /\ completed' = Append(completed, t)
                     ELSE /\ tasks' = [tasks EXCEPT ![t].status = "pending",
                                                    ![t].h = PromptHash(TaskPrompt(t, state))]
                          /\ UNCHANGED completed
    /\ UNCHANGED <<units, report_call, llm_calls, graph, pc, state, executed, llm_down, llm, retrieve_call, validation_call>>

\* the LLM call of a task resolves: the parsed value, or {} from the except branch
TaskFinish(t) ==
    /\ pc = "gather"
    /\ tasks[t].status = "pending"
    /\ LET out == Respond(llm, llm_down, t, tasks[t].h)
       IN tasks' = [tasks EXCEPT ![t].status = "done",
                                 ![t].result = IF out.kind = "json" THEN out.value ELSE EmptyMap]
    /\ completed' = Append(completed, t)
    /\ llm_calls' = [llm_calls EXCEPT
                        ![t] = @ + CallsIssued([raised |-> FALSE, engine |-> engine],
                                               Respond(llm, llm_down, t, tasks[t].h))]
    /\ UNCHANGED <<units, report_call, graph, pc, state, executed, engine, llm_down, llm, retrieve_call,
                   validation_call>>

\* the order of the arguments of asyncio.gather
GatherArgs == <<"fault", "risk", "device_info", "monitoring">>

GatherReady_first == \E t \in TaskNames : tasks[t].status = "done"

\* asyncio.gather resumes the node once every task has a result
GatherReady == \A t \in TaskNames : tasks[t].status = "done"

GatherResults_as_completed ==
    [i \in 1..Len(GatherArgs) |->
        IF i <= Len(completed) THEN tasks[completed[i]].result ELSE EmptyMap]

\* asyncio.gather hands the results back in the order of its arguments
GatherResults == [i \in 1..Len(GatherArgs) |-> tasks[GatherArgs[i]].result]

\* the dict parallel_analysis_node returns
ParallelUpdate(r) ==
    [fault_analysis |-> r[1], risk_analysis |-> r[2],
     device_info_fields |-> r[3], monitoring_fields |-> r[4]]

ParallelJoin ==
    /\ pc = "gather"
    /\ GatherReady
    /\ Return("parallel_analysis", ParallelUpdate(GatherResults))
    /\ completed' = <<>>
    /\ UNCHANGED <<units, report_call, llm_calls, graph, engine, llm_down, llm, tasks, retrieve_call, validation_call>>

\* asyncio.gather without return_exceptions: the first exception of a task
\* leaves the node at once, whatever the other tasks are doing
ParallelAbort ==
    /\ pc = "gather"
    /\ \E t \in TaskNames : tasks[t].status = "raised"
    /\ Raise
    /\ UNCHANGED <<units, report_call, llm_calls, graph, engine, llm_down, llm, tasks, completed, retrieve_call,
                   validation_call>>

(***************************************************************************)
(* maintenance_node                                                        *)
(***************************************************************************)
MaintenanceNode ==
    /\ pc = "maintenance"
    /\ IF "device_name" \notin state.keys
       THEN Raise /\ UNCHANGED <<engine, llm_calls>>
       ELSE \E init \in InitOutcomes, out \in SeqOutcome(MaintenanceOutcomes) :
               LET g == get_engine(engine, init)
               IN /\ engine' = g.engine
                  /\ llm_calls' = [llm_calls EXCEPT !["maintenance"] = @ + CallsIssued(g, out)]
                  /\ Return("maintenance",
                            [maintenance_fields |-> IF CallFails(g, out) THEN EmptyMap ELSE out.value])
    /\ UNCHANGED <<units, report_call, graph, llm_down, llm, tasks, completed, retrieve_call, validation_call>>

(***************************************************************************)
(* validation_node                                                         *)
(***************************************************************************)
\* what the LLM answers to the consistency check: the problems it lists and
\* the corrections (field -> corrected value) it proposes
ValidationOutcomes ==
    <<[kind |-> "raise", issues |-> <<>>, corrections |-> EmptyMap],
      [kind |-> "json", issues |-> <<<<"p">>>>,
       corrections |-> [health_score |-> IntV(60), risk_level |-> T("high")]],
      [kind |-> "json", issues |-> <<>>, corrections |-> EmptyMap]>>

\* all_data = {**core, **fault, **risk, **device_info, **monitoring, **maintenance}
ValidationData(st) ==
    Layer(Layer(Layer(Layer(Layer(st.core_assessment, st.fault_analysis), st.risk_analysis),
                      st.device_info_fields), st.monitoring_fields), st.maintenance_fields)

\* the node updates its local all_data with the corrections and returns the
\* problems only
ValidationNode ==
    /\ pc = "validation"
    /\ \E init \in InitOutcomes, out \in SeqOutcome(ValidationOutcomes) :
          LET g == get_engine(engine, init)
              failed == CallFails(g, out)
              all_data == ValidationData(state)
          IN /\ engine' = g.engine
             /\ llm_calls' = [llm_calls EXCEPT !["validation"] = @ + CallsIssued(g, out)]
             /\ validation_call' =
                  [called |-> TRUE, ok |-> ~failed,
                   corrections |-> IF failed THEN EmptyMap ELSE out.corrections,
                   all_data |-> IF failed THEN all_data ELSE Layer(all_data, out.corrections)]
             /\ Return("validation",
                       [validation_issues |-> IF failed THEN <<>> ELSE out.issues])
    /\ UNCHANGED <<units, report_call, graph, llm_down, llm, tasks, completed, retrieve_call>>

(***************************************************************************)
(* merge_fields_node                                                       *)
(***************************************************************************)
\* state.get("device_name", "未知设备")
MergeDeviceName(st) ==
    IF "device_name" \in st.keys THEN StrV(st.device_name) ELSE T("unknown device")

\* the layers with core_assessment moved to the end
LayerSources_core_last(dn, st) ==
    Layer(Layer(Layer(Layer(Layer(Layer([device_name |-> dn], st.device_info_fields),
                                  st.monitoring_fields), st.fault_analysis),
                      st.risk_analysis), st.maintenance_fields), st.core_assessment)

\* {"device_name": device_name, **device_info, **core, **monitoring, **fault,
\*  **risk, **maintenance}
LayerSources(dn, st) ==
    Layer(Layer(Layer(Layer(Layer(Layer([device_name |-> dn], st.device_info_fields),
                                  st.core_assessment), st.monitoring_fields),
                      st.fault_analysis), st.risk_analysis), st.maintenance_fields)

ProtectDeviceName_none(merged, dn) == merged

\* if not merged.get("device_name"): merged["device_name"] = device_name
ProtectDeviceName(merged, dn) ==
    IF ~Truthy(Get(merged, "device_name")) THEN Put(merged, "device_name", dn) ELSE merged

\* a merge that hands back, when validation raises, the dict as it was before
\* from_llm_response touched it
Validated_raw_uncoerced(merged) ==
    IF ModelValid(CoerceAll(merged)) THEN ModelDump(CoerceAll(merged)) ELSE merged

\* DiagnosisFields.from_llm_response(merged).model_dump(), or the merged dict
\* (which from_llm_response has coerced in place) when validation raises
Validated(merged) ==
    IF ModelValid(CoerceAll(merged)) THEN ModelDump(CoerceAll(merged)) ELSE CoerceAll(merged)

\* the dict merged as it stands after merged.pop("assessment_reasoning", None)
MergedMap(st) ==
    Pop(ProtectDeviceName(LayerSources(MergeDeviceName(st), st), MergeDeviceName(st)),
        "assessment_reasoning")

MergeFields(st) == Validated(MergedMap(st))

MergeFieldsNode ==
    /\ pc = "merge"
    /\ Return("merge", [diagnosis_data |-> MergeFields(state)])
    /\ UNCHANGED <<units, report_call, llm_calls, graph, engine, llm_down, llm, tasks, completed, retrieve_call,
                   validation_call>>

(***************************************************************************)
(* report_node                                                             *)
(***************************************************************************)
\* what generate_diagnosis_report_async does: it raises, or returns a result
\* dict with or without "error" / "output_path"
EmitterOutcomes ==
    {[raised |-> TRUE, success |-> FALSE, has |-> FALSE, text |-> <<"e">>],
     [raised |-> FALSE, success |-> FALSE, has |-> TRUE, text |-> <<"e">>],
     [raised |-> FALSE, success |-> FALSE, has |-> FALSE, text |-> <<>>],
     [raised |-> FALSE, success |-> TRUE, has |-> TRUE, text |-> <<"p">>],
     [raised |-> FALSE, success |-> TRUE, has |-> FALSE, text |-> <<>>]}

\* a node that hands back an empty path whenever it has no file to name
ReportPath_no_sentinel(data, em) ==
    IF ~em.raised /\ em.success /\ em.has THEN em.text ELSE <<>>

ReportPath(data, em) ==
    IF DOMAIN data = {} THEN <<"no data">>
    ELSE IF em.raised THEN <<"failed: ">> \o em.text
    ELSE IF ~em.success THEN <<"failed: ">> \o (IF em.has THEN em.text ELSE <<"unknown error">>)
    ELSE IF em.has THEN em.text ELSE <<>>

ReportNode ==
    /\ pc = "report"
    /\ \E em \in EmitterOutcomes :
          /\ report_call' = [called |-> DOMAIN state.diagnosis_data # {}, em |-> em]
          /\ Return("report", [report_path |-> ReportPath(state.diagnosis_data, em)])
    /\ UNCHANGED <<units, llm_calls, graph, engine, llm_down, llm, tasks, completed, retrieve_call,
                   validation_call>>

(***************************************************************************)
(* The run.                                                                *)
(***************************************************************************)
Next ==
    \/ RetrievalNode
    \/ CoreAssessmentNode
    \/ ParallelStart
    \/ \E t \in TaskNames : TaskStart(t)
    \/ \E t \in TaskNames : TaskFinish(t)
    \/ ParallelJoin
    \/ ParallelAbort
    \/ MaintenanceNode
    \/ ValidationNode
    \/ MergeFieldsNode
    \/ ReportNode

Spec == Init /\ [][Next]_vars

(***************************************************************************)
(* Properties.                                                             *)
(***************************************************************************)
Returned(node) == \E i \in 1..Len(executed) : executed[i] = node

Ended == pc \in {"END", "raised"}

\* the state key a fan-out task's result is returned under
TaskKey(t) ==
    CASE t = "fault" -> "fault_analysis"
      [] t = "risk" -> "risk_analysis"
      [] t = "device_info" -> "device_info_fields"
      [] OTHER -> "monitoring_fields"

\* C1: every run of the pipeline executes retrieval, core_assessment,
\* parallel_analysis, maintenance, validation, merge and report, each once and
\* in that order.
C1_SevenNodesRun ==
    (graph # "node" /\ Ended /\ Returned("retrieval")) => executed = FlowOrder

\* C2: with an LLM client that raises on every call, a run for a non-empty
\* query in which retrieval returned ends without an exception, its record
\* (set by the merge step) has health_score 0, and its report_path is not empty.
C2_GracefulDegradation ==
    (graph = "flow" /\ llm_down /\ engine.llm /\ state.query # <<>> /\ Returned("retrieval")) =>
        /\ Returned("merge") => Get(state.diagnosis_data, "health_score") = IntV(0)
        /\ Ended => (pc = "END" /\ state.report_path # <<>>)

\* C3: once parallel_analysis_node has returned, each of the four tasks has
\* resolved, to a value the LLM answered or to the empty map, and the update
\* carries exactly those four results.
C3_JoinAfterAllResolved ==
    Returned("parallel_analysis") =>
        \A t \in TaskNames :
            /\ tasks[t].status = "done"
            /\ state[TaskKey(t)] = tasks[t].result
            /\ \/ tasks[t].result = EmptyMap
               \/ \E i \in 1..Len(TaskOutcomes(t)) : TaskOutcomes(t)[i] = Json(tasks[t].result)

C3_Witness ==
    /\ Returned("parallel_analysis")
    /\ \E t \in TaskNames : tasks[t].result # EmptyMap
    /\ \E t \in TaskNames : tasks[t].result = EmptyMap

\* what the mocked LLM answers to the prompt task t builds from state st
ExpectedResult(t, st) ==
    LET out == Respond(llm, llm_down, t, PromptHash(TaskPrompt(t, st)))
    IN IF engine.llm /\ out.kind = "json" THEN out.value ELSE EmptyMap

\* C4: with a deterministic LLM the update of parallel_analysis_node is a
\* function of the upstream state alone: in whatever order the four tasks
\* started and finished, each key holds the answer to the prompt built from
\* the state the node was handed.
C4_OrderIndependent ==
    /\ (pc = "gather" /\ GatherReady) =>
          ParallelUpdate(GatherResults) =
              [fault_analysis |-> ExpectedResult("fault", state),
               risk_analysis |-> ExpectedResult("risk", state),
               device_info_fields |-> ExpectedResult("device_info", state),
               monitoring_fields |-> ExpectedResult("monitoring", state)]
    /\ Returned("parallel_analysis") =>
          \A t \in TaskNames : state[TaskKey(t)] = ExpectedResult(t, state)

\* every task answered, and they finished in the reverse of the gather order
C4_Witness ==
    /\ pc = "gather"
    /\ GatherReady
    /\ completed = <<"monitoring", "device_info", "risk", "fault">>
    /\ \A t \in TaskNames : tasks[t].result # EmptyMap

\* C5: a failure at any point of a fan-out task (reading the state included)
\* is caught: no task ends in an exception and the node does not raise.
C5_TaskFailuresCaught ==
    /\ \A t \in TaskNames : tasks[t].status # "raised"
    /\ ~(pc = "raised" /\ \E t \in TaskNames : tasks[t].status # "idle")

\* C6: EnhancedRetriever.retrieve never raises, and returns the empty list
\* when the search of its backend raises.
C6_RetrieveNeverRaises ==
    retrieve_call.called =>
        /\ ~retrieve_call.raised
        /\ retrieve_call.backend_failed => retrieve_call.docs = <<>>

\* C7: after a successful validation with corrections, the record of the
\* merge step holds the corrected value of every corrected field; after a
\* failed validation validation_issues is empty.
C7_CorrectionsApplied ==
    /\ (Returned("merge") /\ validation_call.ok) =>
          \A k \in DOMAIN validation_call.corrections :
              Get(state.diagnosis_data, k) = validation_call.corrections[k]
    /\ (validation_call.called /\ ~validation_call.ok) => state.validation_issues = <<>>

\* C8: in the record of the merge step health_score is an integer in 0..100
\* and issue_count an integer >= 0.
C8_ScoreAndCountInRange ==
    Returned("merge") =>
        LET hs == Get(state.diagnosis_data, "health_score")
            ic == Get(state.diagnosis_data, "issue_count")
        IN /\ hs.t = "int" /\ hs.n >= 0 /\ hs.n <= 100
           /\ ic.t = "int" /\ ic.n >= 0

\* the sources the merge step layers over the retrieval-stage name
LaterSources(st) ==
    {st.device_info_fields, st.core_assessment, st.monitoring_fields,
     st.fault_analysis, st.risk_analysis, st.maintenance_fields}

\* C9 as stated: if any later stage supplies an empty device_name, the record
\* of the merge step carries the retrieval-stage name (read over the runs in
\* which the retrieval stage set a non-empty name).
C9_AnyEmptyNameProtected ==
    (Returned("merge")
        /\ state.device_name # <<>>
        /\ \E src \in LaterSources(state) :
              "device_name" \in DOMAIN src /\ ~Truthy(src["device_name"]))
        => Get(state.diagnosis_data, "device_name") = StrV(state.device_name)

\* the device_name of the layered sources: the one of the last source, in
\* precedence order, that holds the key
LayeredName(st) == Get(LayerSources(NoneV, st), "device_name")

\* C9 amended: if the layered result has device_name empty (the last stage in
\* precedence order that supplies a device_name supplies an empty one), the
\* record of the merge step carries the retrieval-stage name.
C9_LayeredEmptyNameProtected ==
    (Returned("merge")
        /\ (\E src \in LaterSources(state) : "device_name" \in DOMAIN src)
        /\ ~Truthy(LayeredName(state)))
        => Get(state.diagnosis_data, "device_name") = StrV(state.device_name)

C9_Witness ==
    /\ Returned("merge")
    /\ \E src \in LaterSources(state) : "device_name" \in DOMAIN src
    /\ ~Truthy(LayeredName(state))
    /\ state.device_name # <<>>
    /\ Get(state.diagnosis_data, "device_name") = StrV(state.device_name)

\* C10: once the retrieval node has returned on a DiagnosisState, the state
\* holds a non-empty device_name.
C10_DeviceNameNeverEmpty ==
    (graph = "flow" /\ Returned("retrieval")) =>
        ("device_name" \in state.keys /\ state.device_name # <<>>)

\* the later-stage outputs in the order merge_fields_node spreads them
SourceOrder(st) ==
    <<st.device_info_fields, st.core_assessment, st.monitoring_fields,
      st.fault_analysis, st.risk_analysis, st.maintenance_fields>>

SourceKeys(st) == UNION {DOMAIN SourceOrder(st)[i] : i \in 1..Len(SourceOrder(st))}

\* the value of key k in the last source, in that order, that holds k
LatestValue(st, k) ==
    LET o == SourceOrder(st)
        i == CHOOSE j \in 1..Len(o) :
                 k \in DOMAIN o[j] /\ \A l \in (j + 1)..Len(o) : k \notin DOMAIN o[l]
    IN o[i][k]

\* C11 as stated: in the map the merge step builds, every key of the sources
\* but assessment_reasoning holds the value of the latest source, in the order
\* device_info < core < monitoring < fault < risk < maintenance, that has the
\* key; assessment_reasoning is absent from the map and from the record
\* (read over the runs in which the retrieval stage set a non-empty name).
C11_LatestSourceWins ==
    (Returned("merge") /\ state.device_name # <<>>) =>
        /\ \A k \in SourceKeys(state) \ {"assessment_reasoning"} :
              k \in DOMAIN MergedMap(state) /\ MergedMap(state)[k] = LatestValue(state, k)
        /\ "assessment_reasoning" \notin DOMAIN MergedMap(state)
        /\ "assessment_reasoning" \notin DOMAIN state.diagnosis_data

\* C11 amended: the same, except that a device_name whose latest value is
\* empty is replaced by the retrieval-stage name.
C11_LatestSourceWinsButEmptyName ==
    Returned("merge") =>
        /\ \A k \in SourceKeys(state) \ {"assessment_reasoning"} :
              /\ k \in DOMAIN MergedMap(state)
              /\ MergedMap(state)[k] =
                    IF k = "device_name" /\ ~Truthy(LatestValue(state, k))
                    THEN MergeDeviceName(state)
                    ELSE LatestValue(state, k)
        /\ "assessment_reasoning" \notin DOMAIN MergedMap(state)
        /\ "assessment_reasoning" \notin DOMAIN state.diagnosis_data

\* a key that two sources hold with different values, the earlier one being
\* core_assessment, which also holds assessment_reasoning
C11_Witness ==
    /\ Returned("merge")
    /\ "assessment_reasoning" \in DOMAIN state.core_assessment
    /\ \E k \in DOMAIN state.core_assessment \ {"assessment_reasoning", "device_name"} :
          \E i \in 3..Len(SourceOrder(state)) :
              /\ k \in DOMAIN SourceOrder(state)[i]
              /\ SourceOrder(state)[i][k] # state.core_assessment[k]
              /\ MergedMap(state)[k] # state.core_assessment[k]

\* C12: when generate_diagnosis_report_async raises or reports a failure,
\* report_node returns: the run is at its end without an exception, and
\* report_path is the failure sentinel followed by the error description.
C12_ReportFailureIsSentinel ==
    (report_call.called /\ (report_call.em.raised \/ ~report_call.em.success)) =>
        /\ pc = "END"
        /\ executed[Len(executed)] = "report"
        /\ Len(state.report_path) >= 2
        /\ state.report_path[1] = "failed: "
        /\ (report_call.em.raised \/ report_call.em.has) =>
              SubSeq(state.report_path, 2, Len(state.report_path)) = report_call.em.text

\* the emitter raised with the message "e"
C12_Witness ==
    /\ pc = "END"
    /\ report_call.called
    /\ report_call.em.raised
    /\ state.report_path = <<"failed: ", "e">>

(***************************************************************************)
(* Components exercised on their own.  While one of them runs, no pipeline *)
(* run is in progress.                                                     *)
(***************************************************************************)
PipelineIdle ==
    /\ graph = "none"
    /\ pc = "END"
    /\ state = InitialState("node", <<>>, <<>>)
    /\ executed = <<>>
    /\ engine = NoEngine
    /\ llm_down = FALSE
    /\ llm = [t \in TaskNames |-> 0]
    /\ tasks = [t \in TaskNames |-> IdleTask]
    /\ completed = <<>>
    /\ retrieve_call = NoRetrieve
    /\ validation_call = NoValidation
    /\ report_call = NoReport
    /\ llm_calls = NoCalls

(***************************************************************************)
(* QueryExpander.generate_multiple_queries (retrieval/query_expander.py).  *)
(* A text is a sequence of characters; the response of the LLM is one text *)
(* with line breaks in it.                                                 *)
(***************************************************************************)
\* longest response text of the LLM, in characters
MaxText == 4

\* largest num_queries asked for
MaxQueries == 3

Whitespace == {" ", "\n"}

Chars == {"q", "v", " ", "\n"}

RECURSIVE LStrip(_)
LStrip(x) == IF x # <<>> /\ Head(x) \in Whitespace THEN LStrip(Tail(x)) ELSE x

RECURSIVE RStrip(_)
RStrip(x) ==
    IF x # <<>> /\ x[Len(x)] \in Whitespace THEN RStrip(SubSeq(x, 1, Len(x) - 1)) ELSE x

\* str.strip()
Strip(x) == RStrip(LStrip(x))

\* str.split("\n"): the pieces between the line breaks, empty ones included
RECURSIVE SplitLines(_)
SplitLines(x) ==
    IF \A i \in 1..Len(x) : x[i] # "\n" THEN <<x>>
    ELSE LET i == CHOOSE j \in 1..Len(x) : x[j] = "\n" /\ \A l \in 1..(j - 1) : x[l] # "\n"
         IN <<SubSeq(x, 1, i - 1)>> \o SplitLines(SubSeq(x, i + 1, Len(x)))

\* [line.strip() for line in queries_text.split("\n") if line.strip()]
GeneratedQueries(content) ==
    LET lines == SplitLines(Strip(content))
        stripped == [i \in 1..Len(lines) |-> Strip(lines[i])]
        NonEmpty(l) == l # <<>>
    IN SelectSeq(stripped, NonEmpty)

\* list(dict.fromkeys(xs)): the first occurrence of each element, in order
RECURSIVE DictFromKeys(_, _)
DictFromKeys(xs, seen) ==
    IF xs = <<>> THEN <<>>
    ELSE IF Head(xs) \in seen THEN DictFromKeys(Tail(xs), seen)
    ELSE <<Head(xs)>> \o DictFromKeys(Tail(xs), seen \cup {Head(xs)})

\* a slice that cuts nothing
Slice_all(xs, n) == xs

\* xs[:n] of Python, for any integer n
Slice(xs, n) ==
    LET stop == IF n >= 0 THEN (IF n < Len(xs) THEN n ELSE Len(xs))
                ELSE (IF Len(xs) + n > 0 THEN Len(xs) + n ELSE 0)
    IN SubSeq(xs, 1, stop)

\* what self.llm is and does: absent, raising, or answering a text
ExpanderLlms ==
    {[kind |-> "none", content |-> <<>>], [kind |-> "raise", content |-> <<>>]} \cup
    {[kind |-> "text", content |-> c] : c \in SeqsUpTo(Chars, MaxText)}

generate_multiple_queries(query, num_queries, l) ==
    IF l.kind = "none" THEN <<query>>
    ELSE IF l.kind = "raise" THEN <<query>>
    ELSE Slice(DictFromKeys(<<query>> \o GeneratedQueries(l.content), {}), num_queries)

ExpanderInit ==
    /\ PipelineIdle
    /\ retriever = NoRetriever
    /\ bm25 = NoIndex
    /\ \E query \in {<<"q">>, <<"v">>}, n \in 0..MaxQueries, l \in ExpanderLlms :
          call = [fn |-> "generate_multiple_queries", pc |-> "called", query |-> query,
                  num_queries |-> n, llm |-> l, result |-> <<>>]

GenerateMultipleQueries ==
    /\ call.fn = "generate_multiple_queries"
    /\ call.pc = "called"
    /\ call' = [call EXCEPT !.pc = "done",
                            !.result = generate_multiple_queries(call.query, call.num_queries,
                                                                 call.llm)]
    /\ UNCHANGED <<pipeline, retriever, bm25>>

ExpanderNext == GenerateMultipleQueries

ExpanderSpec == ExpanderInit /\ [][ExpanderNext]_vars

\* C16: the list generate_multiple_queries returns starts with the original
\* query, holds no string twice, keeps the generated variants in the order of
\* their first occurrence, and is [query] when the LLM is absent or raises.
C16_OriginalFirstNoDuplicates ==
    (call.fn = "generate_multiple_queries" /\ call.pc = "done") =>
        LET r == call.result
            g == GeneratedQueries(call.llm.content)
            Pos(x) == CHOOSE i \in 1..Len(g) : g[i] = x /\ \A j \in 1..(i - 1) : g[j] # x
        IN /\ Len(r) >= 1
           /\ r[1] = call.query
           /\ \A i, j \in 1..Len(r) : i # j => r[i] # r[j]
           /\ \A i \in 2..Len(r) : \E j \in 1..Len(g) : g[j] = r[i]
           /\ \A i, j \in 2..Len(r) : i < j => Pos(r[i]) < Pos(r[j])
           /\ call.llm.kind \in {"none", "raise"} => r = <<call.query>>

(***************************************************************************)
(* HybridRetriever._reciprocal_rank_fusion (retrieval/hybrid_retriever.py).*)
(* Scores are exact fractions: alpha is a multiple of 1/AlphaSteps, and the*)
(* rounding of floating point, far below the gaps between the scores of    *)
(* the ranks and k modelled here, is left out.                             *)
(***************************************************************************)
\* longest result list of one of the two retrievers
MaxRanked == 3

\* alpha ranges over 0, 1/AlphaSteps, ..., 1
AlphaSteps == 4

\* largest smoothing parameter k tried besides the default
MaxSmoothing == 2

\* HybridRetriever.rrf_k
RRF_K == 60

DocKeys == {"A", "B", "C"}

Frac(n, d) == [num |-> n, den |-> d]

FracAdd(x, y) == Frac(x.num * y.den + y.num * x.den, x.den * y.den)

\* x > y, for fractions with positive denominators
FracGreater(x, y) == x.num * y.den > y.num * x.den

\* {key(doc): i for i, doc in enumerate(docs)}: the last index of each key
RankMap(keys) ==
    [d \in {keys[i] : i \in 1..Len(keys)} |->
        (CHOOSE i \in 1..Len(keys) : keys[i] = d /\ \A j \in (i + 1)..Len(keys) : keys[j] # d) - 1]

\* a contribution that forgets the rank
Contribution_flat(w, k, rank) == Frac(w, AlphaSteps * k)

\* weight * (1 / (k + rank)), the weight being w / AlphaSteps
Contribution(w, k, rank) == Frac(w, AlphaSteps * (k + rank))

\* fused_scores: alpha weighs ranks1, 1 - alpha weighs ranks2; a document
\* missing from a map gets nothing from it
reciprocal_rank_fusion(ranks1, ranks2, a, k) ==
    [doc \in (DOMAIN ranks1) \cup (DOMAIN ranks2) |->
        FracAdd(IF doc \in DOMAIN ranks1 THEN Contribution(a, k, ranks1[doc]) ELSE Frac(0, 1),
                IF doc \in DOMAIN ranks2 THEN Contribution(AlphaSteps - a, k, ranks2[doc])
                ELSE Frac(0, 1))]

FusionInit ==
    /\ PipelineIdle
    /\ retriever = NoRetriever
    /\ bm25 = NoIndex
    /\ \E v \in SeqsUpTo(DocKeys, MaxRanked), b \in SeqsUpTo(DocKeys, MaxRanked),
          a \in 0..AlphaSteps, k \in (1..MaxSmoothing) \cup {RRF_K} :
          call = [fn |-> "reciprocal_rank_fusion", pc |-> "called",
                  ranks1 |-> RankMap(v), ranks2 |-> RankMap(b), alpha |-> a, k |-> k,
                  fused |-> [d \in {} |-> Frac(0, 1)]]

ReciprocalRankFusion ==
    /\ call.fn = "reciprocal_rank_fusion"
    /\ call.pc = "called"
    /\ call' = [call EXCEPT !.pc = "done",
                            !.fused = reciprocal_rank_fusion(call.ranks1, call.ranks2,
                                                             call.alpha, call.k)]
    /\ UNCHANGED <<pipeline, retriever, bm25>>

FusionNext == ReciprocalRankFusion

FusionSpec == FusionInit /\ [][FusionNext]_vars

\* document x has a strictly lower rank than y in both rank maps
BetterInBoth(x, y) ==
    /\ {x, y} \subseteq DOMAIN call.ranks1
    /\ {x, y} \subseteq DOMAIN call.ranks2
    /\ call.ranks1[x] < call.ranks1[y]
    /\ call.ranks2[x] < call.ranks2[y]

\* C19: for every alpha in [0,1] and k > 0, a document ranked strictly better
\* than another in both rank maps gets a strictly greater fused score.
C19_RrfMonotone ==
    (call.fn = "reciprocal_rank_fusion" /\ call.pc = "done") =>
        \A x, y \in DocKeys :
            BetterInBoth(x, y) => FracGreater(call.fused[x], call.fused[y])

\* the weight is all on one retriever and a document beats another in both
C19_Witness ==
    /\ call.fn = "reciprocal_rank_fusion"
    /\ call.pc = "done"
    /\ call.alpha = 0
    /\ call.k = RRF_K
    /\ \E x, y \in DocKeys : BetterInBoth(x, y) /\ FracGreater(call.fused[x], call.fused[y])

(***************************************************************************)
(* BM25Retriever (retrieval/bm25_retriever.py).  A page_content or a query *)
(* is the sequence of words jieba cuts it into.  Scores are fixed-point    *)
(* numbers, in millionths, with ln taken to three decimals.                *)
(***************************************************************************)
\* most words in one document or one query
MaxWords == 2

\* most documents in the corpus
MaxCorpus == 2

\* BM25Retriever.top_k
BM25_TOP_K == 5

\* the words of the documents: one that is indexed, one too short to be
DocWords == {"ab", "x"}

\* the words of the queries: those of the documents and one no document has
QueryWords == {"ab", "cd", "x"}

\* len(t)
WordLen(w) == IF w = "x" THEN 1 ELSE 2

\* [t for t in jieba.cut(text) if len(t) > 1]
Tokenize(words) ==
    LET Kept(w) == WordLen(w) > 1
    IN SelectSeq(words, Kept)

\* doc_tokens.count(token)
Count(tokens, token) == Cardinality({i \in 1..Len(tokens) : tokens[i] = token})

RECURSIVE SumLen(_)
SumLen(corpus) == IF corpus = <<>> THEN 0 ELSE Len(Head(corpus)) + SumLen(Tail(corpus))

FracSub(x, y) == Frac(x.num * y.den - y.num * x.den, x.den * y.den)
FracMul(x, y) == Frac(x.num * y.num, x.den * y.den)
FracDiv(x, y) == Frac(x.num * y.den, x.den * y.num)

\* a fraction in thousandths, rounded down
Milli(x) == (x.num * 1000) \div x.den

k1 == Frac(3, 2)
b == Frac(3, 4)

\* 1000 * math.log((N - freq + 0.5) / (freq + 0.5) + 1), rounded down
LnMilli(N, freq) ==
    CASE <<N, freq>> = <<1, 1>> -> 287
      [] <<N, freq>> = <<2, 1>> -> 693
      [] <<N, freq>> = <<2, 2>> -> 182
      [] <<N, freq>> = <<3, 1>> -> 980
      [] <<N, freq>> = <<3, 2>> -> 470
      [] <<N, freq>> = <<3, 3>> -> 133
      [] <<N, freq>> = <<4, 1>> -> 1203
      [] <<N, freq>> = <<4, 2>> -> 693
      [] <<N, freq>> = <<4, 3>> -> 356
      [] <<N, freq>> = <<4, 4>> -> 105

\* _calculate_idf: for each token of the corpus, the number of documents
\* holding it; the idf is LnMilli(N, df[token])
DocumentFrequency(corpus) ==
    [token \in UNION {{corpus[i][j] : j \in 1..Len(corpus[i])} : i \in 1..Len(corpus)} |->
        Cardinality({i \in 1..Len(corpus) : Count(corpus[i], token) > 0})]

\* __init__ and _build_index: tokens, doc ids, df and the average length
\* (0 for an empty corpus)
BuildIndex(documents, top_k) ==
    LET corpus == [i \in 1..Len(documents) |-> Tokenize(documents[i])]
    IN [built |-> TRUE,
        documents |-> documents,
        top_k |-> top_k,
        corpus |-> corpus,
        doc_ids |-> [i \in 1..Len(documents) |-> i - 1],
        df |-> DocumentFrequency(corpus),
        avgdl |-> IF Len(corpus) > 0 THEN Frac(SumLen(corpus), Len(corpus)) ELSE Frac(0, 1)]

\* a loop that goes on to score a token the document does not hold
SkipsToken_never(f) == FALSE

\* if f == 0: continue
SkipsToken(f) == f = 0

\* the term divides by self._avgdl
TermRaises(idx, doc_tokens, token) ==
    ~SkipsToken(Count(doc_tokens, token)) /\ idx.avgdl.num = 0

\* idf * (numerator / denominator), in millionths
TermScore(idx, doc_tokens, token) ==
    LET f == Count(doc_tokens, token)
        idf == IF token \in DOMAIN idx.df THEN LnMilli(Len(idx.corpus), idx.df[token]) ELSE 0
        numerator == FracMul(Frac(f, 1), FracAdd(k1, Frac(1, 1)))
        denominator ==
            FracAdd(Frac(f, 1),
                    FracMul(k1, FracAdd(FracSub(Frac(1, 1), b),
                                        FracDiv(FracMul(b, Frac(Len(doc_tokens), 1)),
                                                idx.avgdl))))
    IN IF SkipsToken(f) THEN 0 ELSE idf * Milli(FracDiv(numerator, denominator))

RECURSIVE SumTerms(_, _, _)
SumTerms(idx, doc_tokens, query_tokens) ==
    IF query_tokens = <<>> THEN 0
    ELSE TermScore(idx, doc_tokens, Head(query_tokens))
         + SumTerms(idx, doc_tokens, Tail(query_tokens))

\* _get_scores: one score per document, or ZeroDivisionError
get_scores(idx, query) ==
    LET query_tokens == Tokenize(query)
        raised == \E i \in 1..Len(idx.corpus), j \in 1..Len(query_tokens) :
                      TermRaises(idx, idx.corpus[i], query_tokens[j])
    IN [raised |-> raised,
        scores |-> IF raised THEN <<>>
                   ELSE [i \in 1..Len(idx.corpus) |->
                            SumTerms(idx, idx.corpus[i], query_tokens)]]

\* list.sort(key=score, reverse=True): descending and stable
RECURSIVE SortByScore(_)
SortByScore(items) ==
    IF items = <<>> THEN <<>>
    ELSE LET front == SortByScore(SubSeq(items, 1, Len(items) - 1))
             x == items[Len(items)]
             p == Cardinality({i \in 1..Len(front) : front[i].score >= x.score})
         IN SubSeq(front, 1, p) \o <<x>> \o SubSeq(front, p + 1, Len(front))

\* a retriever that hands back the top_k pairs whatever their score
get_relevant_documents_unfiltered(idx, query) ==
    LET got == get_scores(idx, query)
        scored_docs == SortByScore([i \in 1..Len(got.scores) |->
                                       [score |-> got.scores[i], doc_id |-> idx.doc_ids[i]]])
        top_docs == Slice(scored_docs, idx.top_k)
    IN [raised |-> got.raised,
        scores |-> got.scores,
        ids |-> IF got.raised THEN <<>> ELSE [i \in 1..Len(top_docs) |-> top_docs[i].doc_id],
        result |-> IF got.raised THEN <<>>
                   ELSE [i \in 1..Len(top_docs) |-> idx.documents[top_docs[i].doc_id + 1]]]

\* _get_relevant_documents: the documents of the top_k pairs whose score is > 0
get_relevant_documents(idx, query) ==
    LET got == get_scores(idx, query)
        scored_docs == SortByScore([i \in 1..Len(got.scores) |->
                                       [score |-> got.scores[i], doc_id |-> idx.doc_ids[i]]])
        top_docs == Slice(scored_docs, idx.top_k)
        Positive(x) == x.score > 0
        kept == SelectSeq(top_docs, Positive)
    IN [raised |-> got.raised,
        scores |-> got.scores,
        ids |-> IF got.raised THEN <<>> ELSE [i \in 1..Len(kept) |-> kept[i].doc_id],
        result |-> IF got.raised THEN <<>>
                   ELSE [i \in 1..Len(kept) |-> idx.documents[kept[i].doc_id + 1]]]

BM25Init ==
    /\ PipelineIdle
    /\ retriever = NoRetriever
    /\ bm25 = NoIndex
    /\ call = NoCall

\* BM25Retriever(documents, top_k=top_k)
BM25Construct ==
    /\ ~bm25.built
    /\ \E documents \in SeqsUpTo(SeqsUpTo(DocWords, MaxWords), MaxCorpus),
          top_k \in {1, BM25_TOP_K} :
          bm25' = BuildIndex(documents, top_k)
    /\ UNCHANGED <<pipeline, retriever, call>>

\* bm25_retriever.invoke(query); a call leaves the index as it was, so one
\* call on each index shows every call
BM25Invoke ==
    /\ bm25.built
    /\ call = NoCall
    /\ \E query \in SeqsUpTo(QueryWords, MaxWords) :
          LET got == get_relevant_documents(bm25, query)
          IN call' = [fn |-> "bm25_invoke", query |-> query, raised |-> got.raised,
                      scores |-> got.scores, ids |-> got.ids, result |-> got.result]
    /\ UNCHANGED <<pipeline, retriever, bm25>>

BM25Next == BM25Construct \/ BM25Invoke

BM25Spec == BM25Init /\ [][BM25Next]_vars

\* no word of the query that is long enough to be a token occurs in a document
NoQueryTokenInCorpus ==
    \A j \in 1..Len(call.query) :
        WordLen(call.query[j]) > 1 =>
            \A i \in 1..Len(bm25.documents) :
                \A l \in 1..Len(bm25.documents[i]) :
                    bm25.documents[i][l] # call.query[j]

\* every document of the corpus is made of words too short to be tokens
NoDocumentHasTokens ==
    \A i \in 1..Len(bm25.documents) :
        \A l \in 1..Len(bm25.documents[i]) :
            WordLen(bm25.documents[i][l]) <= 1

MaxHits == 2

\* doc.metadata["rerank_score"] = score
SetRerankScore(doc, score) ==
    [content |-> doc.content,
     metadata |-> [source |-> doc.metadata.source, rerank_score |-> score]]

\* what a reranking model can say of one text
Scores == {1, 2}

Contents == {<<"a">>, <<"b">>}

\* the documents the vector store can hand back: two chunks, and a second
\* copy of the first chunk that still carries the score of an earlier rerank
StoreDocs == Docs \cup {SetRerankScore(Doc(<<"a">>, "s1"), 1)}

\* vectorstore.similarity_search(q, k=top_k): it raises, or hands back a list;
\* the store is not held to k
SearchOutcomes ==
    {[raised |-> TRUE, docs |-> <<>>]} \cup
    {[raised |-> FALSE, docs |-> d] : d \in SeqsUpTo(StoreDocs, MaxHits)}

\* hybrid_retriever.invoke(q): it raises, or hands back the fused keys, which
\* are md5 strings and pairwise different
HybridOutcomes ==
    {[raised |-> TRUE, keys |-> <<>>]} \cup
    {[raised |-> FALSE, keys |-> ks] :
        ks \in {q \in SeqsUpTo(DocKeys, MaxHits) :
                   \A i, j \in 1..Len(q) : i # j => q[i] # q[j]}}

\* the values of top_k
TopKs == {0, 1, 2}

\* the values of a flag of retrieve: None, True, False
Flags == {"None", "True", "False"}

\* x if x is not None else default
OrDefault(flag, default) == IF flag = "None" THEN default ELSE flag = "True"

\* metadata_filter: None, or a dict whose entries are, in order, a key with a
\* scalar, a list or a callable
Cond(key, kind, value) == [key |-> key, kind |-> kind, value |-> value]

MetadataFilters ==
    {[given |-> FALSE, conds |-> <<>>],
     [given |-> TRUE, conds |-> <<>>],
     [given |-> TRUE, conds |-> <<Cond("source", "scalar", "s1")>>],
     [given |-> TRUE, conds |-> <<Cond("source", "list", {"s2", "s3"})>>],
     [given |-> TRUE, conds |-> <<Cond("source", "callable", "not_s1")>>],
     [given |-> TRUE, conds |-> <<Cond("source", "scalar", "s1"),
                                  Cond("rerank_score", "callable", "positive")>>]}

\* value(doc_value) for the callables of MetadataFilters
CallFilter(name, doc_value) ==
    IF name = "not_s1" THEN doc_value # "s1" ELSE doc_value > 0

\* a filter entry that lets a document without the key through
KeyMatches_missing_ok(doc, cond) ==
    cond.key \in DOMAIN doc.metadata =>
        CASE cond.kind = "list" -> doc.metadata[cond.key] \in cond.value
          [] cond.kind = "callable" -> CallFilter(cond.value, doc.metadata[cond.key])
          [] OTHER -> doc.metadata[cond.key] = cond.value

\* one round of the loop over filter_dict.items(): FALSE where it breaks
KeyMatches(doc, cond) ==
    /\ cond.key \in DOMAIN doc.metadata
    /\ CASE cond.kind = "list" -> doc.metadata[cond.key] \in cond.value
         [] cond.kind = "callable" -> CallFilter(cond.value, doc.metadata[cond.key])
         [] OTHER -> doc.metadata[cond.key] = cond.value

RECURSIVE Matches(_, _)
Matches(doc, conds) ==
    IF conds = <<>> THEN TRUE
    ELSE IF ~KeyMatches(doc, Head(conds)) THEN FALSE
    ELSE Matches(doc, Tail(conds))

\* _filter_by_metadata
filter_by_metadata(documents, filter_dict) ==
    LET Match(doc) == Matches(doc, filter_dict.conds)
    IN SelectSeq(documents, Match)

\* if metadata_filter: ...
ApplyFilter(documents, metadata_filter) ==
    IF metadata_filter.given /\ metadata_filter.conds # <<>>
    THEN filter_by_metadata(documents, metadata_filter)
    ELSE documents

\* what the reranker's backend does for one call: the model cannot be loaded,
\* the prediction or the request fails, or every text gets a score
RerankOutcomes ==
    {[kind |-> "load_error"], [kind |-> "error"]} \cup
    {[kind |-> "scores", score |-> f] : f \in [Contents -> Scores]}

\* top_k or len(documents)
TopKOrLen(top_k, documents) == IF top_k # 0 THEN top_k ELSE Len(documents)

\* Reranker.rerank(query, documents, top_k) for the BGE and the Cohere
\* reranker: the documents in descending order of score (stable), cut to
\* top_k, each with its score written into its metadata
rerank(type, loaded, documents, top_k, outcome) ==
    IF documents = <<>>
    THEN [raised |-> FALSE, docs |-> <<>>, loaded |-> loaded]
    ELSE IF type = "bge" /\ ~loaded /\ outcome.kind = "load_error"
    THEN [raised |-> TRUE, docs |-> <<>>, loaded |-> FALSE]
    ELSE IF outcome.kind # "scores"
    THEN [raised |-> FALSE,
          docs |-> Slice(documents, IF type = "bge" THEN TopKOrLen(top_k, documents) ELSE top_k),
          loaded |-> (type = "bge")]
    ELSE LET scored_docs ==
                 SortByScore([i \in 1..Len(documents) |->
                                 [score |-> outcome.score[documents[i].content],
                                  doc |-> documents[i]]])
             top == Slice(scored_docs, TopKOrLen(top_k, documents))
         IN [raised |-> FALSE,
             docs |-> [i \in 1..Len(top) |-> SetRerankScore(top[i].doc, top[i].score)],
             loaded |-> (type = "bge")]

\* queries_to_search of retrieve: the expansion block only logs
queries_to_search(query, enable_query_expansion, query_expander) == <<query>>

RetrieverInit ==
    /\ PipelineIdle
    /\ retriever = NoRetriever
    /\ bm25 = NoIndex
    /\ call = NoCall

\* EnhancedRetriever(engine, enable_query_expansion, enable_hybrid_search,
\* enable_reranking, reranker_type, reranker_config)
Construct ==
    /\ ~retriever.created
    /\ \E vectorstore, expansion, hybrid, reranking \in BOOLEAN,
          reranker_type \in {"bge", "cohere"} :
          retriever' =
              [created |-> TRUE,
               vectorstore |-> vectorstore,
               enable_query_expansion |-> expansion,
               enable_hybrid_search |-> hybrid,
               enable_reranking |-> reranking,
               query_expander |-> expansion,
               bm25_retriever |-> FALSE,
               hybrid_retriever |-> FALSE,
               has_bm25_built |-> hybrid,
               bm25_built |-> FALSE,
               reranker |-> IF reranking THEN reranker_type ELSE "none",
               model_loaded |-> FALSE]
    /\ UNCHANGED <<pipeline, bm25, call>>

\* _ensure_bm25_built(documents), which nothing in retrieve calls
EnsureBm25Built ==
    /\ retriever.created
    /\ call = NoCall
    /\ IF ~retriever.has_bm25_built
       THEN /\ call' = [fn |-> "_ensure_bm25_built", pc |-> "done", raised |-> TRUE]
            /\ UNCHANGED retriever
       ELSE IF retriever.bm25_built
       THEN /\ call' = [fn |-> "_ensure_bm25_built", pc |-> "done", raised |-> FALSE]
            /\ UNCHANGED retriever
       ELSE IF ~retriever.vectorstore
       THEN /\ call' = [fn |-> "_ensure_bm25_built", pc |-> "done", raised |-> TRUE]
            /\ retriever' = [retriever EXCEPT !.bm25_retriever = TRUE]
       ELSE /\ call' = [fn |-> "_ensure_bm25_built", pc |-> "done", raised |-> FALSE]
            /\ retriever' = [retriever EXCEPT !.bm25_retriever = TRUE,
                                              !.hybrid_retriever = TRUE,
                                              !.bm25_built = TRUE]
    /\ UNCHANGED <<pipeline, bm25>>

\* retrieve, up to the search: the defaults of the flags and the query set
RetrieveStart ==
    /\ retriever.created
    /\ call = NoCall
    /\ \E top_k \in TopKs, expansion, hybrid, reranking \in Flags,
          enable_multi_query \in BOOLEAN, metadata_filter \in MetadataFilters :
          LET query == <<"q">>
              enable_query_expansion == OrDefault(expansion, retriever.enable_query_expansion)
          IN call' =
              [fn |-> "retrieve", pc |-> "search",
               query |-> query,
               top_k |-> top_k,
               enable_query_expansion |-> enable_query_expansion,
               enable_multi_query |-> enable_multi_query,
               enable_hybrid_search |-> OrDefault(hybrid, retriever.enable_hybrid_search),
               enable_reranking |-> OrDefault(reranking, retriever.enable_reranking),
               metadata_filter |-> metadata_filter,
               queries |-> queries_to_search(query, enable_query_expansion,
                                             retriever.query_expander),
               expander_calls |-> 0,
               branch |-> "none",
               all_results |-> <<>>, unique |-> <<>>, filtered |-> <<>>,
               reranked |-> <<>>, result |-> <<>>, raised |-> FALSE]
    /\ UNCHANGED <<pipeline, retriever, bm25>>

\* retrieve, the search of the one query, the deduplication and the filter;
\* _get_document_key raises on the keys the hybrid retriever hands back
RetrieveSearch ==
    /\ call.fn = "retrieve"
    /\ call.pc = "search"
    /\ IF call.enable_hybrid_search /\ retriever.hybrid_retriever
       THEN \E h \in HybridOutcomes :
               call' = [call EXCEPT !.branch = "hybrid",
                                    !.pc = IF h.raised \/ h.keys # <<>> THEN "done" ELSE "rerank",
                                    !.raised = h.raised \/ h.keys # <<>>]
       ELSE IF retriever.vectorstore
       THEN \E d \in SearchOutcomes :
               IF d.raised
               THEN call' = [call EXCEPT !.branch = "dense", !.pc = "done", !.raised = TRUE]
               ELSE call' = [call EXCEPT !.branch = "dense", !.pc = "rerank",
                                         !.all_results = d.docs,
                                         !.unique = Dedup(d.docs, {}),
                                         !.filtered = ApplyFilter(Dedup(d.docs, {}),
                                                                  call.metadata_filter)]
       ELSE call' = [call EXCEPT !.branch = "dense", !.pc = "rerank"]
    /\ UNCHANGED <<pipeline, retriever, bm25>>

\* retrieve, the rerank and the cut to top_k
RetrieveRerank ==
    /\ call.fn = "retrieve"
    /\ call.pc = "rerank"
    /\ IF call.enable_reranking /\ retriever.reranker # "none"
       THEN \E outcome \in RerankOutcomes :
               LET got == rerank(retriever.reranker, retriever.model_loaded,
                                 call.filtered, call.top_k, outcome)
               IN /\ retriever' = [retriever EXCEPT !.model_loaded = got.loaded]
                  /\ call' = [call EXCEPT !.pc = "done",
                                          !.raised = got.raised,
                                          !.reranked = got.docs,
                                          !.result = Slice(got.docs, call.top_k)]
       ELSE /\ call' = [call EXCEPT !.pc = "done",
                                    !.reranked = call.filtered,
                                    !.result = Slice(call.filtered, call.top_k)]
            /\ UNCHANGED retriever
    /\ UNCHANGED <<pipeline, bm25>>

\* the call is over; the retriever object stays
RetrieverReturn ==
    /\ call.fn \in {"retrieve", "_ensure_bm25_built"}
    /\ call.pc = "done"
    /\ call' = NoCall
    /\ UNCHANGED <<pipeline, retriever, bm25>>

RetrieverNext ==
    \/ Construct
    \/ EnsureBm25Built
    \/ RetrieveStart
    \/ RetrieveSearch
    \/ RetrieveRerank
    \/ RetrieverReturn

RetrieverSpec == RetrieverInit /\ [][RetrieverNext]_vars

\* retrieve has handed back a list
Retrieved == call.fn = "retrieve" /\ call.pc = "done" /\ ~call.raised

\* C13: no two documents of the list retrieve hands back have the same
\* identity key (content and sorted metadata items), the key being taken on
\* the documents as they are handed back.
C13_ReturnedKeysDistinct ==
    Retrieved =>
        \A i, j \in 1..Len(call.result) :
            i # j => DocKey(call.result[i]) # DocKey(call.result[j])

\* C14: a retrieve call with hybrid search enabled, on a retriever made with
\* hybrid search, has the sparse index built by the time it hands back its
\* list, and takes that list from the fusion of the dense and the sparse
\* list, never from the dense list alone.
C14_HybridBuildsAndFuses ==
    (Retrieved /\ call.top_k > 0 /\ retriever.vectorstore
        /\ retriever.enable_hybrid_search /\ call.enable_hybrid_search) =>
        /\ retriever.bm25_built
        /\ call.branch = "hybrid"

\* C15: when the flags ask for query expansion with multi-query generation
\* and the retriever has a query expander, the queries searched are the ones
\* the expander produced: retrieve has consulted it.
C15_ExpandedQueriesSearched ==
    (Retrieved /\ call.top_k > 0 /\ retriever.vectorstore /\ retriever.query_expander
        /\ call.enable_query_expansion /\ call.enable_multi_query) =>
        call.expander_calls > 0

\* a document is kept: for every filter key its metadata has the key, and the
\* value equals the scalar, is in the list, or satisfies the callable
Retained(doc) ==
    \A n \in 1..Len(call.metadata_filter.conds) :
        LET cond == call.metadata_filter.conds[n]
        IN /\ cond.key \in DOMAIN doc.metadata
           /\ \/ cond.kind = "scalar" /\ doc.metadata[cond.key] = cond.value
              \/ cond.kind = "list" /\ doc.metadata[cond.key] \in cond.value
              \/ cond.kind = "callable" /\ CallFilter(cond.value, doc.metadata[cond.key])

\* a document without the score a rerank wrote into it
Unscored(doc) == <<doc.content, doc.metadata.source>>

\* C17: the metadata filter keeps exactly the documents that, for every
\* filter key, have the key with a value that equals the scalar, is in the
\* list or satisfies the callable; it keeps their order; it works on the
\* deduplicated list, and rerank and truncation work on what it kept.
C17_FilterKeepsExactlyMatches ==
    Retrieved =>
        /\ call.unique = Dedup(call.all_results, {})
        /\ call.filtered = SelectSeq(call.unique, Retained)
        /\ Len(call.reranked) <= Len(call.filtered)
        /\ \A i \in 1..Len(call.reranked) :
               \E j \in 1..Len(call.filtered) :
                   Unscored(call.reranked[i]) = Unscored(call.filtered[j])
        /\ \A i \in 1..Len(call.result) : call.result[i] = call.reranked[i]

\* a filter with two keys drops one document and keeps another, which is
\* then reranked and handed back
C17_Witness ==
    /\ Retrieved
    /\ Len(call.metadata_filter.conds) = 2
    /\ Len(call.unique) = 2
    /\ Len(call.filtered) = 1
    /\ call.enable_reranking
    /\ retriever.reranker = "bge"
    /\ Len(call.result) = 1

\* C18: for top_k > 0 the list retrieve hands back has at most top_k
\* documents and is a prefix of the candidates as they stand after
\* deduplication, filter and optional rerank.
C18_AtMostTopKPrefix ==
    (Retrieved /\ call.top_k > 0) =>
        /\ Len(call.result) <= call.top_k
        /\ Len(call.result) <= Len(call.reranked)
        /\ \A i \in 1..Len(call.result) : call.result[i] = call.reranked[i]
        /\ Len(call.result) < call.top_k => Len(call.result) = Len(call.reranked)

\* more candidates than top_k
C18_Witness ==
    /\ Retrieved
    /\ call.top_k = 1
    /\ Len(call.reranked) = 2
    /\ Len(call.result) = 1

(***************************************************************************)
(* Further properties of the pipeline run.                                 *)
(***************************************************************************)
\* the two fields from_llm_response coerces
CoercedFields == {"health_score", "issue_count"}

\* C23: the record of the merge step holds, for health_score and for
\* issue_count, the integer a text value denotes when the text is a numeral
\* and 0 when it is not, whether the record passed validation or is the raw
\* merged map.
C23_TextCoercedToInteger ==
    Returned("merge") =>
        \A k \in CoercedFields \cap DOMAIN MergedMap(state) :
            LET v == MergedMap(state)[k]
            IN v.t = "str" =>
                /\ state.diagnosis_data[k].t = "int"
                /\ IsNumeral(v.s) => state.diagnosis_data[k].n = ToInt(v.s)
                /\ ~IsNumeral(v.s) => state.diagnosis_data[k].n = 0
                /\ v.s = <<"7", "2">> => state.diagnosis_data[k].n = 72
                /\ v.s = <<"-", "5">> => state.diagnosis_data[k].n = 0 - 5
                /\ v.s = <<"x">> => state.diagnosis_data[k].n = 0

\* the raw merged map is handed back, with a numeral coerced in it
C23_Witness ==
    /\ Returned("merge")
    /\ ~ModelValid(CoerceAll(MergedMap(state)))
    /\ Get(MergedMap(state), "health_score") = StrV(<<"-", "5">>)
    /\ Get(state.diagnosis_data, "health_score") = IntV(0 - 5)

\* a numeral and a text that is no numeral are coerced in a validated record
C23_WitnessValidated ==
    /\ Returned("merge")
    /\ ModelValid(CoerceAll(MergedMap(state)))
    /\ Get(MergedMap(state), "health_score") = StrV(<<"7", "2">>)
    /\ Get(MergedMap(state), "issue_count") = StrV(<<"x">>)
    /\ Get(state.diagnosis_data, "health_score") = IntV(72)
    /\ Get(state.diagnosis_data, "issue_count") = IntV(0)

C24_NoDocumentsDefaultWithName ==
    (graph # "node" /\ Returned("retrieval") /\ state.documents = <<>>
        /\ "device_name" \in state.keys /\ pc # "core_assessment") =>
        /\ Returned("core_assessment")
        /\ state.core_assessment = CoreNoDocuments
        /\ llm_calls["core_assessment"] = 0

\* the safe default a node or task falls back to
SafeDefault(c) == IF c = "core_assessment" THEN CoreFailed ELSE EmptyMap

\* what the node or task c has handed back
Handed(c) ==
    CASE c = "core_assessment" -> state.core_assessment
      [] c = "maintenance" -> state.maintenance_fields
      [] c = "validation" -> validation_call.corrections
      [] OTHER -> tasks[c].result

\* the node or task c is over
Over(c) == IF c \in TaskNames THEN tasks[c].status = "done" ELSE Returned(c)

\* C25: in one run each node or task that calls the LLM issues at most one
\* call, and when the LLM raises on every call the node or task that made its
\* one call hands back its safe default.
C25_NoRetry ==
    \A c \in LlmCallers :
        /\ llm_calls[c] <= 1
        /\ (llm_down /\ Over(c) /\ llm_calls[c] = 1) => Handed(c) = SafeDefault(c)

\* the run is over, a call of maintenance failed and was not repeated, and a
\* call of a task was answered
C25_Witness ==
    /\ pc = "END"
    /\ graph = "flow"
    /\ llm_calls["maintenance"] = 1
    /\ state.maintenance_fields = EmptyMap
    /\ llm_calls["core_assessment"] = 1
    /\ \E t \in TaskNames : llm_calls[t] = 1 /\ tasks[t].result # EmptyMap

\* the keys of the partial update a node returns
UpdateKeys(node) ==
    CASE node = "retrieval" -> {"documents", "device_name"}
      [] node = "core_assessment" -> {"core_assessment"}
      [] node = "parallel_analysis" ->
            {"fault_analysis", "risk_analysis", "device_info_fields", "monitoring_fields"}
      [] node = "maintenance" -> {"maintenance_fields"}
      [] node = "validation" -> {"validation_issues"}
      [] node = "merge" -> {"diagnosis_data"}
      [] OTHER -> {"report_path"}

\* C27: every key a node returns in its partial update is a declared key of
\* the state schema of the graph that runs the node, so that once the node
\* has returned the state holds the key for the nodes after it.
C27_ReturnedKeysDeclared ==
    \A i \in 1..Len(executed) :
        /\ UpdateKeys(executed[i]) \subseteq DeclaredKeys(graph)
        /\ UpdateKeys(executed[i]) \subseteq state.keys

(***************************************************************************)
(* get_engine() and get_enhanced_retriever() (agents/diagnosis_agent.py),  *)
(* called one after the other by any caller of the module.                 *)
(***************************************************************************)
\* most calls of the two accessors in one process
MaxCalls == 3

\* the variables of a pipeline run other than the singletons
run ==
    <<graph, pc, state, executed, llm_down, llm, tasks, completed, retrieve_call,
      validation_call, report_call, llm_calls>>

EngineInit ==
    /\ PipelineIdle
    /\ retriever = NoRetriever
    /\ bm25 = NoIndex
    /\ call = [fn |-> "accessors", log |-> <<>>]

\* one call of get_engine(); init is how initialize() would end if it ran now
GetEngine ==
    /\ call.fn = "accessors"
    /\ Len(call.log) < MaxCalls
    /\ \E init \in InitOutcomes :
          LET g == get_engine(engine, init)
          IN /\ engine' = g.engine
             /\ call' = [call EXCEPT !.log = Append(@, [fn |-> "get_engine", init |-> init,
                                                        raised |-> g.raised,
                                                        engine |-> g.engine])]
    /\ UNCHANGED <<run, retriever, bm25>>

\* one call of get_enhanced_retriever()
GetEnhancedRetriever ==
    /\ call.fn = "accessors"
    /\ Len(call.log) < MaxCalls
    /\ \E init \in InitOutcomes :
          LET g == get_enhanced_retriever(engine, init)
          IN /\ engine' = g.engine
             /\ call' = [call EXCEPT !.log = Append(@, [fn |-> "get_enhanced_retriever",
                                                        init |-> init,
                                                        raised |-> g.raised,
                                                        engine |-> g.engine])]
    /\ UNCHANGED <<run, retriever, bm25>>

EngineNext == GetEngine \/ GetEnhancedRetriever

EngineSpec == EngineInit /\ [][EngineNext]_vars

\* C28: once initialize() has raised inside a call of get_engine(), every
\* later call of get_engine() raises again or hands back an engine whose
\* vector store and LLM are set, never the cached instance that was not
\* initialised.
C28_NoUninitialisedEngine ==
    call.fn = "accessors" =>
        \A i, j \in 1..Len(call.log) :
            (i < j /\ call.log[i].raised) =>
                \/ call.log[j].raised
                \/ call.log[j].engine.vectorstore /\ call.log[j].engine.llm

(***************************************************************************)
(* Further properties of the pipeline run, continued.                      *)
(***************************************************************************)
\* C29: after report_node has run, report_path is a non-empty text, whether
\* diagnosis_data was empty, the report emitter failed, raised, or succeeded
\* with or without an output_path.
C29_ReportPathNeverEmpty ==
    Returned("report") => state.report_path # <<>>


\* the field names that more than one of the six analysis outputs holds
SharedKeys(st) ==
    {k \in SourceKeys(st) :
        \E i, j \in 1..Len(SourceOrder(st)) :
            i # j /\ k \in DOMAIN SourceOrder(st)[i] /\ k \in DOMAIN SourceOrder(st)[j]}

\* C30: for every field name held by more than one analysis output (the
\* device name, which the merge treats specially, left aside), the value in the
\* data validation_node submits for checking equals the value in the map
\* merge_fields_node builds.
C30_SamePrecedence ==
    (validation_call.called /\ Returned("merge")) =>
        \A k \in SharedKeys(state) \ {"device_name"} :
            /\ k \in DOMAIN MergedMap(state)
            /\ ValidationData(state)[k] = MergedMap(state)[k]

(***************************************************************************)
(* Further properties of the retrievers.                                   *)
(***************************************************************************)
\* C26: every document of the list retrieve hands back has the identity key
\* (content and sorted metadata items) of one of the documents the filter
\* stage produced: no later stage, the reranker included, changes the
\* content or the metadata of a document.
C26_KeysUnchanged ==
    Retrieved =>
        \A i \in 1..Len(call.result) :
            \E j \in 1..Len(call.filtered) :
                DocKey(call.result[i]) = DocKey(call.filtered[j])

\* the score of the i-th document the BM25 retriever handed back
ScoreOf(i) == call.scores[call.ids[i] + 1]

\* C22: the list the BM25 retriever hands back holds only documents with a
\* score > 0, has at most top_k documents, is in descending order of score,
\* and two documents with the same score stand in their corpus order.
C22_Bm25PositiveSortedStable ==
    (call.fn = "bm25_invoke" /\ ~call.raised) =>
        /\ Len(call.ids) <= bm25.top_k
        /\ Len(call.result) = Len(call.ids)
        /\ \A i \in 1..Len(call.ids) :
              /\ ScoreOf(i) > 0
              /\ call.result[i] = bm25.documents[call.ids[i] + 1]
        /\ \A i \in 1..Len(call.ids) :
              \A j \in (i + 1)..Len(call.ids) :
                  /\ ScoreOf(i) >= ScoreOf(j)
                  /\ ScoreOf(i) = ScoreOf(j) => call.ids[i] < call.ids[j]

\* two documents with the same positive score are handed back
C22_Witness ==
    /\ call.fn = "bm25_invoke"
    /\ ~call.raised
    /\ Len(call.ids) = 2
    /\ ScoreOf(1) = ScoreOf(2)

\* the second document of the corpus scores higher and is handed back first
C22_WitnessReordered ==
    /\ call.fn = "bm25_invoke"
    /\ ~call.raised
    /\ call.ids = <<1, 0>>
    /\ ScoreOf(1) > ScoreOf(2)

\* a document with score 0 is left out, and top_k cuts a document with a
\* positive score
C22_WitnessDropped ==
    /\ call.fn = "bm25_invoke"
    /\ ~call.raised
    /\ \/ /\ Len(call.scores) = 2
          /\ Len(call.ids) = 1
          /\ \E i \in 1..2 : call.scores[i] = 0
       \/ /\ bm25.top_k = 1
          /\ \A i \in 1..Len(call.scores) : call.scores[i] > 0
          /\ Len(call.scores) = 2

(***************************************************************************)
(* HybridRetriever (retrieval/hybrid_retriever.py), exercised on its own.  *)
(* The dense search and the BM25 retriever are taken by their results.     *)
(***************************************************************************)
\* _get_doc_key: the md5 text of the content and the sorted metadata items.
\* A text, not a Document; equal documents get equal keys, and no two
\* distinct documents of the model collide.
get_doc_key(doc) == [md5 |-> DocKey(doc)]

\* sorted(fused_scores.items(), key=score, reverse=True): the keys in
\* descending order of score. The dict was filled in the iteration order of a
\* set of texts, which differs from run to run, so keys with equal scores
\* can come in any order.
SortedByFused(fused) ==
    {s \in SeqsUpTo(DOMAIN fused, Cardinality(DOMAIN fused)) :
        /\ Len(s) = Cardinality(DOMAIN fused)
        /\ \A i, j \in 1..Len(s) : i # j => s[i] # s[j]
        /\ \A i \in 1..Len(s) : \A j \in (i + 1)..Len(s) :
              ~FracGreater(fused[s[j]], fused[s[i]])}

\* _get_relevant_documents, from the two result lists on: the rank maps, the
\* fused scores and the lists the method can hand back
HybridResults(vector_docs, bm25_docs, a, k, top_k) ==
    LET vector_ranks == RankMap([i \in 1..Len(vector_docs) |-> get_doc_key(vector_docs[i])])
        bm25_ranks == RankMap([i \in 1..Len(bm25_docs) |-> get_doc_key(bm25_docs[i])])
        fused_scores == reciprocal_rank_fusion(vector_ranks, bm25_ranks, a, k)
    IN {[fused |-> fused_scores, top_docs |-> Slice(sorted_docs, top_k)] :
            sorted_docs \in SortedByFused(fused_scores)}

HybridInit ==
    /\ PipelineIdle
    /\ retriever = NoRetriever
    /\ bm25 = NoIndex
    /\ call = NoCall

\* HybridRetriever(engine, bm25_retriever, alpha, top_k): raises ValueError
\* when the engine has no vector store
HybridConstruct ==
    /\ ~retriever.created
    /\ \E vectorstore \in BOOLEAN, a \in 0..AlphaSteps, top_k \in 1..MaxHits :
          retriever' = IF vectorstore
                       THEN [created |-> TRUE, alpha |-> a, top_k |-> top_k, rrf_k |-> RRF_K]
                       ELSE [created |-> FALSE, raised |-> TRUE]
    /\ UNCHANGED <<pipeline, bm25, call>>

\* hybrid.invoke(query): similarity_search(query, k=top_k * 2) and
\* bm25_retriever.invoke(query) hand back their lists, then the fusion
HybridInvoke ==
    /\ retriever.created
    /\ call = NoCall
    /\ \E vector_docs \in SeqsUpTo(StoreDocs, MaxHits),
          bm25_docs \in SeqsUpTo(StoreDocs, MaxHits) :
          \E got \in HybridResults(vector_docs, bm25_docs, retriever.alpha,
                                   retriever.rrf_k, retriever.top_k) :
              call' = [fn |-> "hybrid_invoke", vector_docs |-> vector_docs,
                       bm25_docs |-> bm25_docs, fused |-> got.fused,
                       result |-> got.top_docs]
    /\ UNCHANGED <<pipeline, retriever, bm25>>

HybridNext == HybridConstruct \/ HybridInvoke

HybridSpec == HybridInit /\ [][HybridNext]_vars

\* the documents the two retrievers handed back for the query
Candidates ==
    {call.vector_docs[i] : i \in 1..Len(call.vector_docs)} \cup
    {call.bm25_docs[i] : i \in 1..Len(call.bm25_docs)}

\* C21: every element of the list the hybrid retriever hands back is one of
\* the documents the dense or the sparse retriever handed back for the query,
\* and the list is in descending order of fused score.
C21_HybridReturnsDocuments ==
    call.fn = "hybrid_invoke" =>
        /\ \A i \in 1..Len(call.result) : call.result[i] \in Candidates
        /\ \A i \in 1..Len(call.result) : \A j \in (i + 1)..Len(call.result) :
              ~FracGreater(call.fused[get_doc_key(call.result[j])],
                           call.fused[get_doc_key(call.result[i])])

\* what the list does hold: the keys of candidates, at most top_k of them, in
\* descending order of fused score, a candidate of one list only included
HybridReturnsKeysOfCandidates ==
    call.fn = "hybrid_invoke" =>
        /\ Len(call.result) <= retriever.top_k
        /\ \A i \in 1..Len(call.result) :
              \E d \in Candidates : call.result[i] = get_doc_key(d)
        /\ \A i \in 1..Len(call.result) : \A j \in (i + 1)..Len(call.result) :
              ~FracGreater(call.fused[call.result[j]], call.fused[call.result[i]])
        /\ Len(call.result) < retriever.top_k =>
              \A d \in Candidates : \E i \in 1..Len(call.result) :
                  call.result[i] = get_doc_key(d)

====
